---- MODULE Spec2Model ----
(***************************************************************************)
(* Model of the rendering-backend abstraction of prpr-miniquad:            *)
(*   src/src/graphics/backend.rs     RenderingBackendContext,              *)
(*                                   GraphicsContextWrapper                *)
(*   src/src/graphics/vulkan/vk.rs   VulkanContext                         *)
(*                                                                         *)
(* One behaviour follows one context from its construction.  The fields    *)
(* of VulkanContext that the operations read or write are variables; the   *)
(* variables last_*, issued_*, deleted_*, in_frame, cycles and e2e are     *)
(* history variables that record what the caller has observed (arguments   *)
(* passed, results returned), so that properties of returned handles and   *)
(* results can be stated.                                                  *)
(***************************************************************************)
EXTENDS Integers, Sequences, FiniteSets, TLC

(***************************************************************************)
(* Bounds of the model.                                                    *)
(***************************************************************************)
\* create_buffer calls per behaviour (caps the usize counter next_buffer_id)
MaxBufferCreates == 2
\* create_texture calls per behaviour (caps next_texture_id)
MaxTextureCreates == 2
\* begin_frame calls per behaviour
MaxFrames == 2
\* shader-creation calls per behaviour
MaxShaderCreates == 2

(***************************************************************************)
(* Input domains.                                                          *)
(***************************************************************************)
Backends == {"OpenGL", "Vulkan"}
\* crate::graphics::BufferType as matched in backend.rs:102-106
BufferTypes == {"VertexBuffer", "IndexBuffer"}
\* handles a caller may pass: every handle that can be issued and one more
HandleArgs == 0..MaxBufferCreates
\* buffer sizes and data lengths in bytes: empty and non-empty
Sizes == {0, 1}
\* lengths in bytes of the data passed to update_buffer: up to one byte more
\* than the largest buffer
DataLens == {0, 1, 2}
\* shader sources: the empty string and some source text
ShaderSources == {"", "void main() {}"}
\* texture widths and heights: zero and non-zero
Dims == {0, 1}
\* arguments of set_msaa_samples: the powers of two up to 16 and values that
\* are no supported sample count
SampleArgs == {0, 1, 2, 3, 4, 5, 8, 16}

VARIABLES
    \* build configuration and construction
    vulkan_feature,       \* cfg(feature = "vulkan")
    requested,            \* the backend kind passed to it
    backend,              \* "OpenGL" | "Vulkan" | "panic" | "error"
    gl_is_gles2,          \* GraphicsContext::new(is_gles2) of the OpenGL arm
    \* VulkanContext fields (vk.rs:59-104)
    next_buffer_id,
    next_texture_id,
    current_frame,
    max_frames_in_flight,
    msaa_samples,
    buffers,
    textures,
    shaders,
    pipelines,
    in_flight_fences,
    \* device limit read by set_msaa_samples
    device_max_samples,
    \* history of the calls made on the context
    last_call,
    last_result,
    issued_buffers,
    issued_textures,
    issued_shaders,
    deleted_buffers,
    in_frame,
    cycles,
    e2e

buildVars == <<vulkan_feature, requested, backend>>
vkVars == <<next_buffer_id, next_texture_id, current_frame,
            max_frames_in_flight, msaa_samples, buffers, textures, shaders,
            pipelines, in_flight_fences, device_max_samples>>
histVars == <<last_call, last_result, issued_buffers, issued_textures,
              issued_shaders, deleted_buffers,
              in_frame, cycles, e2e>>
vars == <<buildVars, gl_is_gles2, vkVars, histVars>>

(***************************************************************************)
(* Results: Result<T, E>.  val is 0 for Ok(()).                            *)
(***************************************************************************)
Ok(v) == [ok |-> TRUE, val |-> v, err |-> "none"]
Err(e) == [ok |-> FALSE, val |-> 0, err |-> e]
Call(op, args) == [op |-> op, args |-> args]


Range(q) == {q[i] : i \in DOMAIN q}

\* The end-to-end scenario of the dispatch layer: the calls a caller makes, in
\* order, on a context it has just constructed.
Scenario ==
    << Call("RenderingBackendContext::initialize", <<>>),
       Call("RenderingBackendContext::begin_render_pass", <<"None">>),
       Call("RenderingBackendContext::end_render_pass", <<>>),
       Call("RenderingBackendContext::present", <<>>) >>

\* Every operation records its call and its result.  e2e is the number of
\* scenario steps made so far when the calls made are exactly a prefix of
\* Scenario, and Len(Scenario) + 1 once any other call was made.
Observe(c, r) ==
    /\ last_call' = c
    /\ last_result' = r
    /\ e2e' = IF /\ e2e < Len(Scenario)
                 /\ c.op = Scenario[e2e + 1].op
                 /\ c.args = Scenario[e2e + 1].args
              THEN e2e + 1
              ELSE Len(Scenario) + 1

(***************************************************************************)
(* Construction.                                                           *)
(***************************************************************************)
\* vk.rs:336-339: the placeholder check always answers true
VulkanContext_is_available == TRUE

\* backend.rs:155-163
is_available(b, feature) ==
    IF b = "OpenGL" THEN TRUE
    ELSE IF feature THEN VulkanContext_is_available
    ELSE FALSE

\* fault: a request for Vulkan without the capability degrades to OpenGL
RenderingBackendContext_new_fallback(b, feature) ==
    IF b = "OpenGL" THEN "OpenGL"
    ELSE IF feature THEN "Vulkan"
    ELSE "OpenGL"

\* backend.rs:22-30: "panic" is the process-fatal arm of the match
RenderingBackendContext_new(b, feature) ==
    IF b = "OpenGL" THEN "OpenGL"
    ELSE IF feature THEN "Vulkan"
    ELSE "panic"

\* fault: the availability test is missing, so every request reaches
\* RenderingBackendContext::new
GraphicsContextWrapper_new_unchecked(b, feature) ==
    RenderingBackendContext_new(b, feature)

\* backend.rs:182-190: "error" is the Err(String) return
GraphicsContextWrapper_new(b, feature) ==
    IF ~is_available(b, feature) THEN "error"
    ELSE RenderingBackendContext_new(b, feature)

Constructors == {"RenderingBackendContext::new", "GraphicsContextWrapper::new"}

Construct(via, b, feature) ==
    IF via = "GraphicsContextWrapper::new"
    THEN GraphicsContextWrapper_new(b, feature)
    ELSE RenderingBackendContext_new(b, feature)

\* fault: a context constructed with an entry already in its buffer table
VulkanContext_new_dirty ==
    [next_buffer_id |-> 0, next_texture_id |-> 0, current_frame |-> 0,
     max_frames_in_flight |-> 2, msaa_samples |-> 4,
     buffers |-> {0}, textures |-> {}, shaders |-> <<>>, pipelines |-> <<>>,
     in_flight_fences |-> <<>>]

\* fault: a context constructed with MSAA off (TYPE_1)
VulkanContext_new_msaa1 ==
    [next_buffer_id |-> 0, next_texture_id |-> 0, current_frame |-> 0,
     max_frames_in_flight |-> 2, msaa_samples |-> 1,
     buffers |-> {}, textures |-> {}, shaders |-> <<>>, pipelines |-> <<>>,
     in_flight_fences |-> <<>>]

\* vk.rs:108-156: the zero state of a context.  msaa_samples holds the sample
\* count n of vk::SampleCountFlags::TYPE_n; the HashMaps are their key sets.
VulkanContext_new ==
    [next_buffer_id |-> 0, next_texture_id |-> 0, current_frame |-> 0,
     max_frames_in_flight |-> 2, msaa_samples |-> 4,
     buffers |-> {}, textures |-> {}, shaders |-> <<>>, pipelines |-> <<>>,
     in_flight_fences |-> <<>>]

IsVulkan == backend = "Vulkan"

Init ==
    /\ vulkan_feature \in BOOLEAN
    /\ requested \in Backends
    /\ \E via \in Constructors :
          /\ backend = Construct(via, requested, vulkan_feature)
          /\ last_call = Call(via, <<requested>>)
    /\ gl_is_gles2 = FALSE
    /\ next_buffer_id = VulkanContext_new.next_buffer_id
    /\ next_texture_id = VulkanContext_new.next_texture_id
    /\ current_frame = VulkanContext_new.current_frame
    /\ max_frames_in_flight = VulkanContext_new.max_frames_in_flight
    /\ msaa_samples = VulkanContext_new.msaa_samples
    /\ buffers = VulkanContext_new.buffers
    /\ textures = VulkanContext_new.textures
    /\ shaders = VulkanContext_new.shaders
    /\ pipelines = VulkanContext_new.pipelines
    /\ in_flight_fences = VulkanContext_new.in_flight_fences
    /\ device_max_samples \in {8, 16}
    /\ last_result = IF backend \in Backends THEN Ok(0) ELSE Err(backend)
    /\ issued_buffers = <<>>
    /\ issued_textures = <<>>
    /\ issued_shaders = <<>>
    /\ deleted_buffers = {}
    /\ in_frame = FALSE
    /\ cycles = 0
    /\ e2e = 0

(***************************************************************************)
(* VulkanContext: resource operations (vk.rs:262-330).                     *)
(***************************************************************************)
VkBufferUsages == {"VERTEX_BUFFER", "INDEX_BUFFER", "UNIFORM_BUFFER"}

\* fault: the counter is not advanced, so the next call returns the same id
create_buffer_next_id_stuck(n) == n

\* vk.rs:265  self.next_buffer_id += 1
create_buffer_next_id(n) == n + 1

\* vk.rs:263-268: the size, usage and location are ignored; nothing is put
\* into self.buffers
vk_create_buffer(op, args) ==
    /\ next_buffer_id < MaxBufferCreates
    /\ Len(issued_buffers) < MaxBufferCreates
    /\ Observe(Call(op, args), Ok(next_buffer_id))
    /\ issued_buffers' = Append(issued_buffers, next_buffer_id)
    /\ next_buffer_id' = create_buffer_next_id(next_buffer_id)
    /\ UNCHANGED <<buildVars, gl_is_gles2, next_texture_id, current_frame,
                   max_frames_in_flight, msaa_samples, buffers, textures,
                   shaders, pipelines, in_flight_fences, device_max_samples,
                   issued_textures, deleted_buffers, issued_shaders, in_frame, cycles>>

VulkanContext_create_buffer(size, usage) ==
    /\ IsVulkan
    /\ vk_create_buffer("VulkanContext::create_buffer", <<size, usage>>)

\* vk.rs:270-273: Ok(()) for every id
delete_buffer_result(id) == Ok(0)

VulkanContext_delete_buffer(id) ==
    /\ IsVulkan
    /\ Observe(Call("VulkanContext::delete_buffer", <<id>>), delete_buffer_result(id))
    /\ deleted_buffers' =
         IF delete_buffer_result(id).ok /\ id \in Range(issued_buffers)
         THEN deleted_buffers \cup {id} ELSE deleted_buffers
    /\ UNCHANGED <<buildVars, gl_is_gles2, vkVars, issued_buffers,
                   issued_textures, issued_shaders, in_frame, cycles>>

\* vk.rs:327-330: Ok(()) for every id and every data
update_buffer_result(id, len) == Ok(0)

vk_update_buffer(op, id, len) ==
    /\ Observe(Call(op, <<id, len>>), update_buffer_result(id, len))
    /\ UNCHANGED <<buildVars, gl_is_gles2, vkVars, issued_buffers,
                   issued_textures, deleted_buffers, issued_shaders, in_frame, cycles>>

VulkanContext_update_buffer(id, len) ==
    /\ IsVulkan
    /\ vk_update_buffer("VulkanContext::update_buffer", id, len)

\* vk.rs:282  self.next_texture_id += 1
create_texture_next_id(n) == n + 1

\* fault: create_texture takes its handle from the buffer counter
vk_create_texture_shared_counter(op, w, h, len) ==
    /\ next_buffer_id < MaxBufferCreates
    /\ Len(issued_textures) < MaxTextureCreates
    /\ Observe(Call(op, <<w, h, len>>), Ok(next_buffer_id))
    /\ issued_textures' = Append(issued_textures, next_buffer_id)
    /\ next_buffer_id' = next_buffer_id + 1
    /\ UNCHANGED <<buildVars, gl_is_gles2, next_texture_id, current_frame,
                   max_frames_in_flight, msaa_samples, buffers, textures,
                   shaders, pipelines, in_flight_fences, device_max_samples,
                   issued_buffers, deleted_buffers, issued_shaders, in_frame,
                   cycles>>

\* vk.rs:280-285
vk_create_texture(op, w, h, len) ==
    /\ next_texture_id < MaxTextureCreates
    /\ Len(issued_textures) < MaxTextureCreates
    /\ Observe(Call(op, <<w, h, len>>), Ok(next_texture_id))
    /\ issued_textures' = Append(issued_textures, next_texture_id)
    /\ next_texture_id' = create_texture_next_id(next_texture_id)
    /\ UNCHANGED <<buildVars, gl_is_gles2, next_buffer_id, current_frame,
                   max_frames_in_flight, msaa_samples, buffers, textures,
                   shaders, pipelines, in_flight_fences, device_max_samples,
                   issued_buffers, deleted_buffers, issued_shaders, in_frame, cycles>>

VulkanContext_create_texture(w, h, len) ==
    /\ IsVulkan
    /\ vk_create_texture("VulkanContext::create_texture", w, h, len)

\* vk.rs:275-278: Ok(()) for every id, size and data
update_texture_result(id, w, h, len) == Ok(0)

VulkanContext_update_texture(id, w, h, len) ==
    /\ IsVulkan
    /\ Observe(Call("VulkanContext::update_texture", <<id, w, h, len>>), update_texture_result(id, w, h, len))
    /\ UNCHANGED <<buildVars, gl_is_gles2, vkVars, issued_buffers,
                   issued_textures, deleted_buffers, issued_shaders, in_frame, cycles>>

\* vk.rs:289: the handle does not depend on the context or the arguments
create_shader_result == Ok(0)

\* vk.rs:287-290: the sources and the ShaderMeta are ignored; nothing is
\* pushed to self.shaders
VulkanContext_create_shader(vertex_shader, fragment_shader) ==
    /\ IsVulkan
    /\ Len(issued_shaders) < MaxShaderCreates
    /\ Observe(Call("VulkanContext::create_shader",
                    <<vertex_shader, fragment_shader>>), create_shader_result)
    /\ issued_shaders' = Append(issued_shaders, create_shader_result.val)
    /\ UNCHANGED <<buildVars, gl_is_gles2, vkVars, issued_buffers,
                   issued_textures, deleted_buffers, in_frame, cycles>>

\* vk.rs:294
create_compute_shader_result == Ok(0)

\* vk.rs:292-295
VulkanContext_create_compute_shader(compute_shader) ==
    /\ IsVulkan
    /\ Len(issued_shaders) < MaxShaderCreates
    /\ Observe(Call("VulkanContext::create_compute_shader", <<compute_shader>>),
               create_compute_shader_result)
    /\ issued_shaders' = Append(issued_shaders, create_compute_shader_result.val)
    /\ UNCHANGED <<buildVars, gl_is_gles2, vkVars, issued_buffers,
                   issued_textures, deleted_buffers, in_frame, cycles>>

(***************************************************************************)
(* VulkanContext: frame and pass operations (vk.rs:244-252, 303-334).      *)
(***************************************************************************)
\* vk.rs:165-178, 317-320: initialize runs init_vulkan, which returns Ok(())
\* and assigns no field
vk_initialize(op) ==
    /\ Observe(Call(op, <<>>), Ok(0))
    /\ UNCHANGED <<buildVars, gl_is_gles2, vkVars, issued_buffers,
                   issued_textures, deleted_buffers, issued_shaders, in_frame, cycles>>

VulkanContext_initialize ==
    /\ IsVulkan
    /\ vk_initialize("VulkanContext::initialize")

\* fault: begin_frame answers the index of the following frame
begin_frame_result_next == Ok((current_frame + 1) % max_frames_in_flight)

\* vk.rs:244-247: returns self.current_frame; no fence is waited on
begin_frame_result == Ok(current_frame)

VulkanContext_begin_frame ==
    /\ IsVulkan
    /\ cycles < MaxFrames
    /\ Observe(Call("VulkanContext::begin_frame", <<>>), begin_frame_result)
    /\ in_frame' = TRUE
    /\ UNCHANGED <<buildVars, gl_is_gles2, vkVars, issued_buffers,
                   issued_textures, deleted_buffers, issued_shaders, cycles>>

\* a begin_frame followed by end_frame or present completes one cycle
CompleteCycle ==
    /\ in_frame' = FALSE
    /\ cycles' = IF in_frame THEN cycles + 1 ELSE cycles

\* fault: end_frame advances the buffer counter
VulkanContext_end_frame_consumes_handle ==
    /\ IsVulkan
    /\ next_buffer_id < MaxBufferCreates
    /\ Observe(Call("VulkanContext::end_frame", <<>>), Ok(0))
    /\ CompleteCycle
    /\ next_buffer_id' = next_buffer_id + 1
    /\ UNCHANGED <<buildVars, gl_is_gles2, next_texture_id, current_frame,
                   max_frames_in_flight, msaa_samples, buffers, textures,
                   shaders, pipelines, in_flight_fences, device_max_samples,
                   issued_buffers, issued_textures, deleted_buffers,
                   issued_shaders>>

\* vk.rs:249-252: Ok(()); self.current_frame is not assigned
VulkanContext_end_frame ==
    /\ IsVulkan
    /\ Observe(Call("VulkanContext::end_frame", <<>>), Ok(0))
    /\ CompleteCycle
    /\ UNCHANGED <<buildVars, gl_is_gles2, vkVars, issued_buffers,
                   issued_textures, deleted_buffers, issued_shaders>>

\* vk.rs:322-325: Ok(()); self.current_frame is not assigned
vk_present(op) ==
    /\ Observe(Call(op, <<>>), Ok(0))
    /\ CompleteCycle
    /\ UNCHANGED <<buildVars, gl_is_gles2, vkVars, issued_buffers,
                   issued_textures, deleted_buffers, issued_shaders>>

VulkanContext_present ==
    /\ IsVulkan
    /\ vk_present("VulkanContext::present")

\* vk.rs:303-306: clear is the colour the caller gave ("Some"), or "None"
\* where the dispatch layer substitutes opaque black
vk_begin_render_pass(op, clear) ==
    /\ Observe(Call(op, <<clear>>), Ok(0))
    /\ UNCHANGED <<buildVars, gl_is_gles2, vkVars, issued_buffers,
                   issued_textures, deleted_buffers, issued_shaders, in_frame, cycles>>

VulkanContext_begin_render_pass ==
    /\ IsVulkan
    /\ vk_begin_render_pass("VulkanContext::begin_render_pass", "Some")

\* vk.rs:308-311
vk_end_render_pass(op) ==
    /\ Observe(Call(op, <<>>), Ok(0))
    /\ UNCHANGED <<buildVars, gl_is_gles2, vkVars, issued_buffers,
                   issued_textures, deleted_buffers, issued_shaders, in_frame, cycles>>

VulkanContext_end_render_pass ==
    /\ IsVulkan
    /\ vk_end_render_pass("VulkanContext::end_render_pass")

\* vk.rs:332-334: logs and returns; no table is cleared
vk_cleanup(op) ==
    /\ Observe(Call(op, <<>>), Ok(0))
    /\ UNCHANGED <<buildVars, gl_is_gles2, vkVars, issued_buffers,
                   issued_textures, deleted_buffers, issued_shaders, in_frame, cycles>>

VulkanContext_cleanup ==
    /\ IsVulkan
    /\ vk_cleanup("VulkanContext::cleanup")

(***************************************************************************)
(* VulkanContext: MSAA and statistics.  set_msaa_samples and               *)
(* get_performance_stats are called by tests.rs:12-48 and by               *)
(* examples/simple_vulkan_test.rs:14-21 but are not defined in vk.rs; they *)
(* are modelled from sections 4.3, 6 and 8 of the specification.           *)
(***************************************************************************)
\* fault: the power-of-two test is missing
IsSupportedSampleCount_any_positive(n) == n >= 1 /\ n <= device_max_samples

\* fault: 8 and 16 are refused on every device
IsSupportedSampleCount_below_eight(n) == n \in {1, 2, 4}

\* a power of two from {1,2,4,8,16}, capped at the device maximum
IsSupportedSampleCount(n) == n \in {1, 2, 4, 8, 16} /\ n <= device_max_samples

\* the sample count after set_msaa_samples(n): n on success, the prior value
\* on failure
set_msaa_samples_value(n) == IF IsSupportedSampleCount(n) THEN n ELSE msaa_samples

\* the error names the invalid value; its kind is not fixed by the
\* specification
set_msaa_samples_result(n) ==
    IF IsSupportedSampleCount(n) THEN Ok(0) ELSE Err("UnsupportedSampleCount")

VulkanContext_set_msaa_samples(n) ==
    /\ IsVulkan
    /\ Observe(Call("VulkanContext::set_msaa_samples", <<n>>), set_msaa_samples_result(n))
    /\ msaa_samples' = set_msaa_samples_value(n)
    /\ UNCHANGED <<buildVars, gl_is_gles2, next_buffer_id, next_texture_id,
                   current_frame, max_frames_in_flight, buffers, textures,
                   shaders, pipelines, in_flight_fences, device_max_samples,
                   issued_buffers, issued_textures, deleted_buffers, issued_shaders, in_frame,
                   cycles>>

\* vk.rs:313-315: <<total_size, allocated_size, available, peak>>
get_memory_budget == <<0, 0, 0, 0>>

\* fault: msaa_enabled is reported as true whatever the sample count
get_performance_stats_msaa_always ==
    [buffer_count |-> Cardinality(buffers),
     texture_count |-> Cardinality(textures),
     shader_count |-> Len(shaders),
     pipeline_count |-> Len(pipelines),
     allocated_memory |-> get_memory_budget[2],
     frame_time |-> 0,
     msaa_samples |-> msaa_samples,
     msaa_enabled |-> TRUE]

\* The statistics snapshot, recomputed from the tables on request.  No
\* operation of the context records a frame duration, so frame_time is 0.
get_performance_stats ==
    [buffer_count |-> Cardinality(buffers),
     texture_count |-> Cardinality(textures),
     shader_count |-> Len(shaders),
     pipeline_count |-> Len(pipelines),
     allocated_memory |-> get_memory_budget[2],
     frame_time |-> 0,
     msaa_samples |-> msaa_samples,
     msaa_enabled |-> (msaa_samples > 1)]

(***************************************************************************)
(* RenderingBackendContext: the dispatch layer (backend.rs:20-173).  Each  *)
(* operation matches on the backend; the Vulkan arm forwards to the        *)
(* VulkanContext operation and maps its error to a String.                 *)
(***************************************************************************)
IsOpenGL == backend = "OpenGL"

\* the OpenGL arms change no field of the context but the recorded call
OpenGLOnly ==
    UNCHANGED <<buildVars, vkVars, issued_buffers, issued_textures,
                deleted_buffers, issued_shaders, in_frame, cycles>>

\* backend.rs:35-40
opengl_initialize_result == Ok(0)

\* backend.rs:33-46: the OpenGL arm rebuilds the GraphicsContext with the
\* answer of crate::native::gl::is_gl2()
RenderingBackendContext_initialize ==
    \/ /\ IsOpenGL
       /\ \E is_gl2 \in BOOLEAN : gl_is_gles2' = is_gl2
       /\ Observe(Call("RenderingBackendContext::initialize", <<>>), opengl_initialize_result)
       /\ OpenGLOnly
    \/ /\ IsVulkan
       /\ vk_initialize("RenderingBackendContext::initialize")

ClearColors == {"None", "Some"}

\* backend.rs:51-54
opengl_begin_render_pass_result == Ok(0)

\* backend.rs:49-61
RenderingBackendContext_begin_render_pass(clear) ==
    \/ /\ IsOpenGL
       /\ Observe(Call("RenderingBackendContext::begin_render_pass", <<clear>>),
                  opengl_begin_render_pass_result)
       /\ UNCHANGED gl_is_gles2
       /\ OpenGLOnly
    \/ /\ IsVulkan
       /\ vk_begin_render_pass("RenderingBackendContext::begin_render_pass", clear)

\* backend.rs:66-69
opengl_end_render_pass_result == Ok(0)

\* backend.rs:64-75
RenderingBackendContext_end_render_pass ==
    \/ /\ IsOpenGL
       /\ Observe(Call("RenderingBackendContext::end_render_pass", <<>>),
                  opengl_end_render_pass_result)
       /\ UNCHANGED gl_is_gles2
       /\ OpenGLOnly
    \/ /\ IsVulkan
       /\ vk_end_render_pass("RenderingBackendContext::end_render_pass")

\* fault: the OpenGL arm of present reports a failure
opengl_present_result_err == Err("present")

\* backend.rs:80-83
opengl_present_result == Ok(0)

\* backend.rs:78-89
RenderingBackendContext_present ==
    \/ /\ IsOpenGL
       /\ Observe(Call("RenderingBackendContext::present", <<>>), opengl_present_result)
       /\ UNCHANGED gl_is_gles2
       /\ OpenGLOnly
    \/ /\ IsVulkan
       /\ vk_present("RenderingBackendContext::present")

\* backend.rs:102-106: the first arm that matches is taken
buffer_usage_flags(usage) ==
    CASE usage = "VertexBuffer" -> "VERTEX_BUFFER"
      [] usage = "IndexBuffer" -> "INDEX_BUFFER"

\* backend.rs:94-97: the placeholder handle
opengl_create_buffer_result == Ok(0)

\* backend.rs:92-111: the Vulkan arm hands the mapped usage flag to
\* VulkanContext::create_buffer (recorded as the third argument)
RenderingBackendContext_create_buffer(size, usage) ==
    \/ /\ IsOpenGL
       /\ Len(issued_buffers) < MaxBufferCreates
       /\ Observe(Call("RenderingBackendContext::create_buffer", <<size, usage>>),
                  opengl_create_buffer_result)
       /\ issued_buffers' = Append(issued_buffers, opengl_create_buffer_result.val)
       /\ UNCHANGED <<buildVars, gl_is_gles2, vkVars, issued_textures,
                      deleted_buffers, issued_shaders, in_frame, cycles>>
    \/ /\ IsVulkan
       /\ vk_create_buffer("RenderingBackendContext::create_buffer",
                           <<size, usage, buffer_usage_flags(usage)>>)

\* backend.rs:114-125
RenderingBackendContext_update_buffer(id, len) ==
    \/ /\ IsOpenGL
       /\ Observe(Call("RenderingBackendContext::update_buffer", <<id, len>>), Ok(0))
       /\ UNCHANGED gl_is_gles2
       /\ OpenGLOnly
    \/ /\ IsVulkan
       /\ vk_update_buffer("RenderingBackendContext::update_buffer", id, len)

\* backend.rs:130-133: the placeholder handle
opengl_create_texture_result == Ok(0)

\* backend.rs:128-139
RenderingBackendContext_create_texture(w, h, len) ==
    \/ /\ IsOpenGL
       /\ Len(issued_textures) < MaxTextureCreates
       /\ Observe(Call("RenderingBackendContext::create_texture", <<w, h, len>>),
                  opengl_create_texture_result)
       /\ issued_textures' = Append(issued_textures, opengl_create_texture_result.val)
       /\ UNCHANGED <<buildVars, gl_is_gles2, vkVars, issued_buffers,
                      deleted_buffers, issued_shaders, in_frame, cycles>>
    \/ /\ IsVulkan
       /\ vk_create_texture("RenderingBackendContext::create_texture", w, h, len)

\* backend.rs:142-152
RenderingBackendContext_cleanup ==
    \/ /\ IsOpenGL
       /\ Observe(Call("RenderingBackendContext::cleanup", <<>>), Ok(0))
       /\ UNCHANGED gl_is_gles2
       /\ OpenGLOnly
    \/ /\ IsVulkan
       /\ vk_cleanup("RenderingBackendContext::cleanup")

\* fault: both arms of the match answer OpenGL
backend_type_always_opengl == "OpenGL"

\* backend.rs:166-172
backend_type == backend

(***************************************************************************)
(* GraphicsContextWrapper: the typed accessors (backend.rs:202-218).  The  *)
(* wrapper holds one RenderingBackendContext and the accessors match on    *)
(* it, so they are defined on every state of a constructed context.  An    *)
(* Option is recorded as a result: Some(ctx) as Ok(0), None as Err("None").*)
(***************************************************************************)
\* fault: the catch-all arm of as_opengl answers Some as well
as_opengl_result_always_some == Ok(0)

\* backend.rs:203-209
as_opengl_result == IF backend = "OpenGL" THEN Ok(0) ELSE Err("None")

\* backend.rs:213-218
as_vulkan_result == IF backend = "Vulkan" THEN Ok(0) ELSE Err("None")

GraphicsContextWrapper_as_opengl ==
    /\ backend \in Backends
    /\ Observe(Call("GraphicsContextWrapper::as_opengl", <<>>), as_opengl_result)
    /\ UNCHANGED <<buildVars, gl_is_gles2, vkVars, issued_buffers,
                   issued_textures, issued_shaders, deleted_buffers, in_frame,
                   cycles>>

\* backend.rs:212: the accessor exists only in a build with the feature
GraphicsContextWrapper_as_vulkan ==
    /\ backend \in Backends
    /\ vulkan_feature
    /\ Observe(Call("GraphicsContextWrapper::as_vulkan", <<>>), as_vulkan_result)
    /\ UNCHANGED <<buildVars, gl_is_gles2, vkVars, issued_buffers,
                   issued_textures, issued_shaders, deleted_buffers, in_frame,
                   cycles>>

(***************************************************************************)
(* The specification.                                                      *)
(***************************************************************************)
\* buffer and texture operations, at both layers
NextResources ==
    \/ \E size \in Sizes, usage \in VkBufferUsages :
          VulkanContext_create_buffer(size, usage)
    \/ \E id \in HandleArgs : VulkanContext_delete_buffer(id)
    \/ \E id \in HandleArgs, len \in DataLens : VulkanContext_update_buffer(id, len)
    \/ \E w \in Dims, h \in Dims, len \in Sizes :
          VulkanContext_create_texture(w, h, len)
    \/ \E id \in HandleArgs, w \in Dims, h \in Dims, len \in Sizes :
          VulkanContext_update_texture(id, w, h, len)
    \/ \E size \in Sizes, usage \in BufferTypes :
          RenderingBackendContext_create_buffer(size, usage)
    \/ \E id \in HandleArgs, len \in DataLens :
          RenderingBackendContext_update_buffer(id, len)
    \/ \E w \in Dims, h \in Dims, len \in Sizes :
          RenderingBackendContext_create_texture(w, h, len)

\* shader creation
NextShaders ==
    \/ \E vertex_shader \in ShaderSources, fragment_shader \in ShaderSources :
          VulkanContext_create_shader(vertex_shader, fragment_shader)
    \/ \E compute_shader \in ShaderSources :
          VulkanContext_create_compute_shader(compute_shader)

\* bring-up, frame, render-pass and teardown operations, at both layers
NextFrames ==
    \/ VulkanContext_initialize
    \/ VulkanContext_begin_frame
    \/ VulkanContext_end_frame
    \/ VulkanContext_present
    \/ VulkanContext_begin_render_pass
    \/ VulkanContext_end_render_pass
    \/ VulkanContext_cleanup
    \/ RenderingBackendContext_initialize
    \/ \E clear \in ClearColors : RenderingBackendContext_begin_render_pass(clear)
    \/ RenderingBackendContext_end_render_pass
    \/ RenderingBackendContext_present
    \/ RenderingBackendContext_cleanup

\* the typed accessors of the wrapper
NextWrapper ==
    \/ GraphicsContextWrapper_as_opengl
    \/ GraphicsContextWrapper_as_vulkan

\* MSAA configuration
NextMsaa ==
    \E n \in SampleArgs : VulkanContext_set_msaa_samples(n)

Next == NextResources \/ NextShaders \/ NextFrames \/ NextWrapper \/ NextMsaa

\* every operation, in any order
Spec == Init /\ [][Next]_vars

\* every operation but shader creation, which assigns no field of the context
\* and returns the same handle whatever was called before
SpecDraw ==
    Init /\ [][NextResources \/ NextFrames \/ NextWrapper \/ NextMsaa]_vars

\* the buffer, texture, frame, render-pass, bring-up and teardown operations:
\* every operation that reads or writes a handle counter or the frame index
SpecHandles == Init /\ [][NextResources \/ NextFrames]_vars

\* every operation but set_msaa_samples: the sample count stays as constructed
SpecResources == Init /\ [][NextResources \/ NextShaders \/ NextFrames]_vars

\* every operation but the buffer and texture operations: no handle is issued
SpecFrames == Init /\ [][NextFrames \/ NextMsaa]_vars

(***************************************************************************)
(* Properties.                                                             *)
(***************************************************************************)
Stats == get_performance_stats
LastIs(op) == last_call.op = op
\* no operation has been called since the constructor returned
Fresh == last_call.op \in Constructors
\* the ring slot of frame index f in the 1-based sequence in_flight_fences
Slot(f) == f + 1

\* C1: on one VulkanContext the handles returned by create_buffer, in the
\* order of the calls and whatever is deleted in between, are strictly
\* increasing, so no handle is returned twice.
C1_BufferHandlesStrictlyIncreasing ==
    IsVulkan =>
        \A i \in DOMAIN issued_buffers : \A j \in DOMAIN issued_buffers :
            i < j => issued_buffers[i] < issued_buffers[j]

\* a buffer was created and deleted, and create_buffer has just returned the
\* handle of a second buffer
C1_Witness ==
    /\ IsVulkan
    /\ LastIs("VulkanContext::create_buffer")
    /\ Len(issued_buffers) = 2
    /\ issued_buffers[1] \in deleted_buffers
    /\ last_result = Ok(issued_buffers[2])

\* C2: update_buffer on a handle that create_buffer returned and that
\* delete_buffer has since deleted fails with InvalidHandle.
C2_UpdateAfterDeleteIsInvalidHandle ==
    ( /\ IsVulkan
      /\ LastIs("VulkanContext::update_buffer")
      /\ last_call.args[1] \in deleted_buffers )
    => last_result = Err("InvalidHandle")

\* C3: update_buffer, delete_buffer and update_texture called with a handle
\* that no create call of that category has returned report InvalidHandle.
C3_UnknownHandleIsInvalidHandle ==
    /\ ( /\ IsVulkan
         /\ last_call.op \in {"VulkanContext::update_buffer",
                              "VulkanContext::delete_buffer"}
         /\ last_call.args[1] \notin Range(issued_buffers) )
       => last_result = Err("InvalidHandle")
    /\ ( /\ IsVulkan
         /\ LastIs("VulkanContext::update_texture")
         /\ last_call.args[1] \notin Range(issued_textures) )
       => last_result = Err("InvalidHandle")

\* C4: set_msaa_samples(n) with n in {1,2,4,8,16} and n at most the device
\* maximum succeeds from any prior sample count, the context's sample count
\* becomes n, and the statistics report msaa_samples = n and
\* msaa_enabled = (n > 1).
C4_SupportedSampleCountIsSet ==
    ( /\ IsVulkan
      /\ LastIs("VulkanContext::set_msaa_samples")
      /\ last_call.args[1] \in {1, 2, 4, 8, 16}
      /\ last_call.args[1] <= device_max_samples )
    => /\ last_result.ok
       /\ msaa_samples = last_call.args[1]
       /\ Stats.msaa_samples = last_call.args[1]
       /\ Stats.msaa_enabled = (last_call.args[1] > 1)

\* set_msaa_samples(1) has just succeeded and switched MSAA off
C4_Witness ==
    /\ IsVulkan
    /\ LastIs("VulkanContext::set_msaa_samples")
    /\ last_call.args[1] = 1
    /\ last_result.ok
    /\ Stats.msaa_samples = 1
    /\ ~Stats.msaa_enabled

\* C5: set_msaa_samples(n) with n not a supported sample count (not in
\* {1,2,4,8,16}, or above the device maximum) returns an error and leaves
\* the sample count as it was before the call.
C5_UnsupportedSampleCountIsRejected ==
    [][ ( /\ IsVulkan
          /\ last_call'.op = "VulkanContext::set_msaa_samples"
          /\ ~( /\ last_call'.args[1] \in {1, 2, 4, 8, 16}
                /\ last_call'.args[1] <= device_max_samples ) )
        => ( ~last_result'.ok /\ msaa_samples' = msaa_samples ) ]_vars

\* set_msaa_samples(3) has just failed on a context whose sample count had
\* been set to 8, and the count is still 8
C5_Witness ==
    /\ IsVulkan
    /\ LastIs("VulkanContext::set_msaa_samples")
    /\ last_call.args[1] = 3
    /\ ~last_result.ok
    /\ msaa_samples = 8

\* C6: the statistics of a just-constructed VulkanContext, before any call,
\* report every count and the allocated memory as zero and frame_time as 0.
C6_FreshStatsAreZero ==
    (IsVulkan /\ Fresh) =>
        /\ Stats.buffer_count = 0
        /\ Stats.texture_count = 0
        /\ Stats.shader_count = 0
        /\ Stats.pipeline_count = 0
        /\ Stats.allocated_memory = 0
        /\ Stats.frame_time = 0

\* a Vulkan context on which no operation has been called yet
C6_Witness ==
    /\ IsVulkan
    /\ Fresh
    /\ issued_buffers = <<>>
    /\ issued_textures = <<>>
    /\ cycles = 0

\* C7: a just-constructed VulkanContext has sample count 4 and statistics
\* msaa_samples = 4, msaa_enabled = true, and what the statistics report
\* about MSAA changes only in a successful set_msaa_samples.
C7_DefaultMsaaIsFourUntilSet ==
    /\ IsVulkan =>
          /\ msaa_samples = 4
          /\ Stats.msaa_samples = 4
          /\ Stats.msaa_enabled
    /\ [][ ( /\ IsVulkan
             /\ \/ msaa_samples' # msaa_samples
                \/ Stats.msaa_samples' # Stats.msaa_samples
                \/ Stats.msaa_enabled' # Stats.msaa_enabled )
           => ( /\ last_call'.op = "VulkanContext::set_msaa_samples"
                /\ last_result'.ok ) ]_vars

\* a buffer and a texture were created and a frame completed, and the
\* context still reports the sample count it was constructed with
C7_Witness ==
    /\ IsVulkan
    /\ issued_buffers # <<>>
    /\ issued_textures # <<>>
    /\ cycles = 1
    /\ Stats.msaa_samples = 4
    /\ Stats.msaa_enabled

\* C8: every begin_frame / end_frame (or present) cycle advances
\* current_frame to (current_frame + 1) mod max_frames_in_flight, and
\* begin_frame returns the indices 0,1,0,1,... over successive cycles.
C8_FrameIndexAdvancesEachCycle ==
    [][ /\ ( /\ IsVulkan
             /\ in_frame
             /\ last_call'.op \in {"VulkanContext::end_frame",
                                   "VulkanContext::present",
                                   "RenderingBackendContext::present"} )
           => current_frame' = (current_frame + 1) % max_frames_in_flight
        /\ ( /\ IsVulkan
             /\ last_call'.op = "VulkanContext::begin_frame" )
           => last_result' = Ok(cycles % max_frames_in_flight) ]_vars

\* C9: at most max_frames_in_flight frames have an unsignaled fence, and a
\* begin_frame that returns a ring slot has found that slot's fence
\* signaled.
C9_BeginFrameWaitsForSlotFence ==
    IsVulkan =>
        /\ Cardinality({i \in DOMAIN in_flight_fences : ~in_flight_fences[i]})
              <= max_frames_in_flight
        /\ (LastIs("VulkanContext::begin_frame") /\ last_result.ok) =>
              /\ Slot(last_result.val) \in DOMAIN in_flight_fences
              /\ in_flight_fences[Slot(last_result.val)]

\* C10: OpenGL is available, and on a context constructed with the OpenGL
\* backend each step of initialize, begin_render_pass(None),
\* end_render_pass(), present(), made in that order with no other call,
\* returns success.
C10_OpenGLScenarioSucceeds ==
    /\ is_available("OpenGL", vulkan_feature)
    /\ (IsOpenGL /\ e2e \in 1..Len(Scenario)) => last_result.ok

\* the whole scenario has run on an OpenGL context: present has returned
\* success and no resource was created
C10_Witness ==
    /\ IsOpenGL
    /\ e2e = Len(Scenario)
    /\ LastIs("RenderingBackendContext::present")
    /\ last_result.ok
    /\ issued_buffers = <<>>
    /\ issued_textures = <<>>

\* C11: without the Vulkan capability compiled in,
\* RenderingBackendContext::new(Vulkan) ends in the fatal arm: no context is
\* returned, in particular no OpenGL context, and no operation follows.
C11_VulkanWithoutCapabilityIsFatal ==
    /\ ( /\ ~vulkan_feature
         /\ last_call = Call("RenderingBackendContext::new", <<"Vulkan">>) )
       => backend = "panic"
    /\ [][backend # "panic"]_vars

\* RenderingBackendContext::new(Vulkan) was called in a build without the
\* Vulkan capability and has panicked
C11_Witness ==
    /\ ~vulkan_feature
    /\ last_call = Call("RenderingBackendContext::new", <<"Vulkan">>)
    /\ backend = "panic"
    /\ ~last_result.ok

\* C12: whatever operations were called on a context, backend_type()
\* answers the backend kind that was passed to new.
C12_BackendTypeIsFixedAtConstruction ==
    backend \in Backends => backend_type = requested

\* a Vulkan context that was initialized, created a buffer and a texture,
\* presented a frame and was cleaned up still answers Vulkan
C12_Witness ==
    /\ requested = "Vulkan"
    /\ LastIs("RenderingBackendContext::cleanup")
    /\ issued_buffers # <<>>
    /\ issued_textures # <<>>
    /\ cycles >= 1
    /\ backend_type = "Vulkan"

CreateBufferOps ==
    {"VulkanContext::create_buffer", "RenderingBackendContext::create_buffer"}
UpdateBufferOps ==
    {"VulkanContext::update_buffer", "RenderingBackendContext::update_buffer"}
CreateTextureOps ==
    {"VulkanContext::create_texture", "RenderingBackendContext::create_texture"}

\* C13: on a Vulkan context, create_buffer with size 0 returns an error, issues no handle and
\* leaves the handles issued so far and the handle counter as they were.
C13_ZeroSizeBufferIsRejected ==
    [][ ( /\ IsVulkan
          /\ last_call'.op \in CreateBufferOps
          /\ last_call'.args[1] = 0 )
        => ( /\ ~last_result'.ok
             /\ issued_buffers' = issued_buffers
             /\ next_buffer_id' = next_buffer_id ) ]_vars

\* C14: on a Vulkan context, create_texture with width 0 or height 0 returns an error and
\* registers no texture handle.
C14_ZeroDimensionTextureIsRejected ==
    [][ ( /\ IsVulkan
          /\ last_call'.op \in CreateTextureOps
          /\ \/ last_call'.args[1] = 0
             \/ last_call'.args[2] = 0 )
        => ( /\ ~last_result'.ok
             /\ issued_textures' = issued_textures
             /\ next_texture_id' = next_texture_id ) ]_vars

\* C15: on a Vulkan context, when create_buffer has just returned the handle
\* of a buffer of capacity size > 0, update_buffer on that handle with more
\* than size bytes of data returns an error.
C15_OversizedUpdateIsRejected ==
    [][ ( /\ IsVulkan
          /\ last_call.op \in CreateBufferOps
          /\ last_call.args[1] > 0
          /\ last_result.ok
          /\ last_call'.op \in UpdateBufferOps
          /\ last_call'.args[1] = last_result.val
          /\ last_call'.args[2] > last_call.args[1] )
        => ~last_result'.ok ]_vars

\* C16: when create_texture(w, h, data) with w, h > 0 has just returned a
\* handle,
\* update_texture on that handle succeeds with data of the same byte length
\* and returns an error with data of another byte length.
C16_UpdateTextureChecksLength ==
    [][ ( /\ IsVulkan
          /\ last_call.op \in CreateTextureOps
          /\ last_call.args[1] > 0
          /\ last_call.args[2] > 0
          /\ last_result.ok
          /\ last_call'.op = "VulkanContext::update_texture"
          /\ last_call'.args[1] = last_result.val )
        => ( last_result'.ok <=> last_call'.args[4] = last_call.args[3] ) ]_vars

\* C17: in every state of a Vulkan context the statistics report
\* msaa_enabled = true exactly when the context's sample count is above 1.
C17_MsaaEnabledIffSamplesAboveOne ==
    IsVulkan => (Stats.msaa_enabled <=> msaa_samples > 1)

\* the sample count was set to 1, a frame was begun afterwards, and the
\* statistics report MSAA as off
C17_Witness ==
    /\ IsVulkan
    /\ LastIs("VulkanContext::begin_frame")
    /\ msaa_samples = 1
    /\ ~Stats.msaa_enabled

\* C18: on a Vulkan context the statistics' buffer_count is K - D after K
\* successful create_buffer calls and D successful delete_buffer calls on
\* live handles, and texture_count is the number of textures created.
C18_StatsCountLiveResources ==
    IsVulkan =>
        /\ Stats.buffer_count = Len(issued_buffers) - Cardinality(deleted_buffers)
        /\ Stats.texture_count = Len(issued_textures)

\* C19: on one VulkanContext every successful create_shader or
\* create_compute_shader call returns a handle that no earlier successful
\* shader-creation call on the context returned.
C19_ShaderHandlesAreUnique ==
    IsVulkan =>
        \A i \in DOMAIN issued_shaders : \A j \in DOMAIN issued_shaders :
            i # j => issued_shaders[i] # issued_shaders[j]

\* C20: on a context of either backend every successful
\* RenderingBackendContext::create_buffer call returns a handle that no
\* earlier create_buffer call on the context returned.
C20_DispatchCreateBufferReturnsFreshHandle ==
    ( /\ LastIs("RenderingBackendContext::create_buffer")
      /\ last_result.ok )
    => \A i \in 1..(Len(issued_buffers) - 1) :
          issued_buffers[i] # last_result.val

\* C22: on a constructed context as_opengl yields a context exactly when
\* backend_type() is OpenGL and as_vulkan exactly when it is Vulkan, so
\* exactly one of the two accessors yields a context, whatever operations
\* were called; a build without the Vulkan capability has no as_vulkan and
\* no Vulkan context.
C22_ExactlyOneAccessorYieldsContext ==
    backend \in Backends =>
        /\ as_opengl_result.ok <=> backend_type = "OpenGL"
        /\ vulkan_feature => (as_vulkan_result.ok <=> backend_type = "Vulkan")
        /\ ~vulkan_feature => backend_type = "OpenGL"
        /\ as_opengl_result.ok # (vulkan_feature /\ as_vulkan_result.ok)
        /\ LastIs("GraphicsContextWrapper::as_opengl")
              => (last_result.ok <=> requested = "OpenGL")
        /\ LastIs("GraphicsContextWrapper::as_vulkan")
              => (last_result.ok <=> requested = "Vulkan")

\* after a buffer was created and a frame completed on a Vulkan context,
\* as_opengl has just answered None
C22_Witness ==
    /\ IsVulkan
    /\ issued_buffers # <<>>
    /\ cycles >= 1
    /\ LastIs("GraphicsContextWrapper::as_opengl")
    /\ ~last_result.ok
    /\ as_vulkan_result.ok

InitializeOps ==
    {"VulkanContext::initialize", "RenderingBackendContext::initialize"}
CleanupOps ==
    {"VulkanContext::cleanup", "RenderingBackendContext::cleanup"}
\* the ring slots of a context: frame indices 0 .. max_frames_in_flight - 1
RingSlots == 0..(max_frames_in_flight - 1)
\* the buffer categories a caller can ask for
BufferCategories ==
    {"VertexBuffer", "IndexBuffer", "UniformBuffer", "StorageBuffer"}

\* C25: delete_buffer(id) on a live handle makes the handle invalid at once:
\* an update_buffer on id that directly follows the delete is refused with
\* InvalidHandle.  (The context keeps no record of buffer memory, so the
\* deferred free has no state to be read from.)
C25_DeletedHandleIsInvalidAtOnce ==
    [][ ( /\ IsVulkan
          /\ LastIs("VulkanContext::delete_buffer")
          /\ last_result.ok
          /\ last_call.args[1] \in Range(issued_buffers)
          /\ last_call'.op \in UpdateBufferOps
          /\ last_call'.args[1] = last_call.args[1] )
        => last_result' = Err("InvalidHandle") ]_vars

\* C27: when initialize has returned success on a Vulkan context, every
\* ring slot has an in-flight fence and the fence is signaled.
C27_FencesStartSignaled ==
    ( /\ IsVulkan
      /\ last_call.op \in InitializeOps
      /\ last_result.ok )
    => \A f \in RingSlots :
          /\ Slot(f) \in DOMAIN in_flight_fences
          /\ in_flight_fences[Slot(f)]

\* C29: on a Vulkan context create_buffer maps every buffer category
\* (VertexBuffer, IndexBuffer, UniformBuffer, StorageBuffer) to a usage flag,
\* no two categories to the same flag, and IndexBuffer not to UNIFORM_BUFFER.
C29_BufferUsageMappingIsInjective ==
    IsVulkan =>
        /\ BufferCategories \subseteq BufferTypes
        /\ \A c1 \in BufferTypes : \A c2 \in BufferTypes :
              c1 # c2 => buffer_usage_flags(c1) # buffer_usage_flags(c2)
        /\ buffer_usage_flags("IndexBuffer") # "UNIFORM_BUFFER"

\* C30: cleanup leaves no buffer, texture, shader or pipeline in the
\* context's tables, and a call that directly follows cleanup with a handle
\* issued before it is refused.
C30_NothingOutlivesCleanup ==
    [][ /\ ( /\ IsVulkan
             /\ last_call'.op \in CleanupOps )
           => ( /\ buffers' = {}
                /\ textures' = {}
                /\ shaders' = <<>>
                /\ pipelines' = <<>> )
        /\ ( /\ IsVulkan
             /\ last_call.op \in CleanupOps
             /\ last_call'.op \in UpdateBufferOps \cup {"VulkanContext::delete_buffer"}
             /\ last_call'.args[1] \in Range(issued_buffers) )
           => ~last_result'.ok
        /\ ( /\ IsVulkan
             /\ last_call.op \in CleanupOps
             /\ last_call'.op = "VulkanContext::update_texture"
             /\ last_call'.args[1] \in Range(issued_textures) )
           => ~last_result'.ok ]_vars

\* C31: GraphicsContextWrapper::new(backend) returns a context exactly when
\* is_available(backend) is true; when it is false it returns an error
\* value and does not reach the panic of RenderingBackendContext::new; the
\* context it returns is of the requested backend.
C31_WrapperConstructsOnlyAvailableBackend ==
    LastIs("GraphicsContextWrapper::new") =>
        /\ backend \in Backends <=> is_available(requested, vulkan_feature)
        /\ ~is_available(requested, vulkan_feature) =>
              /\ backend = "error"
              /\ ~last_result.ok
        /\ backend \in Backends =>
              /\ backend_type = requested
              /\ last_result.ok

\* GraphicsContextWrapper::new(Vulkan) was called in a build without the
\* Vulkan capability and has returned an error value
C31_Witness ==
    /\ LastIs("GraphicsContextWrapper::new")
    /\ requested = "Vulkan"
    /\ ~is_available(requested, vulkan_feature)
    /\ backend = "error"
    /\ last_result = Err("error")

\* the operations that create no resource
NonCreatingOps ==
    {"VulkanContext::initialize", "VulkanContext::begin_frame",
     "VulkanContext::end_frame", "VulkanContext::begin_render_pass",
     "VulkanContext::end_render_pass", "VulkanContext::present",
     "VulkanContext::update_buffer", "VulkanContext::update_texture",
     "VulkanContext::delete_buffer", "VulkanContext::cleanup",
     "RenderingBackendContext::initialize",
     "RenderingBackendContext::begin_render_pass",
     "RenderingBackendContext::end_render_pass",
     "RenderingBackendContext::present",
     "RenderingBackendContext::update_buffer",
     "RenderingBackendContext::cleanup"}

\* C32: on a Vulkan context create_texture leaves the next buffer handle
\* unchanged and create_buffer leaves the next texture handle unchanged, and
\* the handles returned by create_texture are pairwise distinct, the first
\* being 0.
C32_BufferAndTextureCountersAreIndependent ==
    /\ [](IsVulkan =>
            /\ issued_textures # <<>> => issued_textures[1] = 0
            /\ \A i \in DOMAIN issued_textures : \A j \in DOMAIN issued_textures :
                  i # j => issued_textures[i] # issued_textures[j])
    /\ [][ IsVulkan =>
             /\ last_call'.op \in CreateTextureOps
                   => next_buffer_id' = next_buffer_id
             /\ last_call'.op \in CreateBufferOps
                   => next_texture_id' = next_texture_id ]_vars

\* a buffer was created, and create_texture has just returned the handle 1
\* of a second texture while the next buffer handle is still 1
C32_Witness ==
    /\ IsVulkan
    /\ LastIs("VulkanContext::create_texture")
    /\ issued_textures = <<0, 1>>
    /\ issued_buffers = <<0>>
    /\ next_buffer_id = 1
    /\ next_texture_id = 2

\* C33: on a Vulkan context initialize, begin_frame, end_frame,
\* begin_render_pass, end_render_pass, present, update_buffer,
\* update_texture, delete_buffer and cleanup leave next_buffer_id and
\* next_texture_id unchanged, and a create call returns the number of
\* earlier create calls of its category, whatever else was called.
C33_OnlyCreationConsumesHandles ==
    [][ IsVulkan =>
          /\ last_call'.op \in NonCreatingOps
                => /\ next_buffer_id' = next_buffer_id
                   /\ next_texture_id' = next_texture_id
          /\ last_call'.op \in CreateBufferOps
                => last_result' = Ok(Len(issued_buffers))
          /\ last_call'.op \in CreateTextureOps
                => last_result' = Ok(Len(issued_textures)) ]_vars

\* after a buffer was created and deleted and a frame completed,
\* create_buffer has just returned handle 1
C33_Witness ==
    /\ IsVulkan
    /\ LastIs("VulkanContext::create_buffer")
    /\ cycles >= 1
    /\ deleted_buffers = {0}
    /\ issued_buffers = <<0, 1>>
    /\ last_result = Ok(1)
    /\ next_buffer_id = 2

\* C34: on a Vulkan context current_frame is always a ring index,
\* 0 <= current_frame < max_frames_in_flight, max_frames_in_flight is always
\* 2, and begin_frame returns current_frame and leaves it unchanged.
C34_CurrentFrameIsRingIndex ==
    /\ [](IsVulkan =>
            /\ 0 <= current_frame
            /\ current_frame < max_frames_in_flight
            /\ max_frames_in_flight = 2)
    /\ [][ ( /\ IsVulkan
             /\ last_call'.op = "VulkanContext::begin_frame" )
           => ( /\ last_result' = Ok(current_frame)
                /\ current_frame' = current_frame ) ]_vars

\* a frame was completed and begin_frame has just returned the index of the
\* second frame
C34_Witness ==
    /\ IsVulkan
    /\ LastIs("VulkanContext::begin_frame")
    /\ in_frame
    /\ cycles = 1
    /\ last_result = Ok(current_frame)
    /\ current_frame \in RingSlots

====
